---- MODULE Spec2Model ----
(***************************************************************************)
(* A model of the pager "lesser": the paged reader (src/lesser/reader.rs)  *)
(* and the dispatch loop that drives it (src/less/mod.rs).                 *)
(*                                                                         *)
(* Byte offsets are 0-based as in the Rust code; the byte at offset k of   *)
(* the mapped buffer is mmap[k + 1].  usize/u64 are modelled as unsigned   *)
(* words of WordBits bits.  An arithmetic overflow panics in a build with  *)
(* overflow checks (debug, the profile of `cargo test`) and wraps modulo   *)
(* 2^WordBits in a build without them (release).                           *)
(***************************************************************************)
EXTENDS Integers, Sequences, FiniteSets, TLC

\* ---------------------------------------------------------------- bounds
\* width of the modelled machine word (usize and u64)
WordBits == 4
\* longest mapped buffer
MaxLen == 4
\* largest rows_to_read / terminal height
MaxRows == 2
\* largest columns_to_read / terminal width
MaxCols == 2
\* largest row offset of a direct call below the top of the word
MaxRowOffset == 3
\* largest column offset of a direct call below the top of the word
MaxColOffset == 1
\* most intents waiting in the channel at once
MaxPending == 1
\* longest buffer the pager is run on
MaxPagerLen == 3
\* most intents one producer sends in a run of the channel specification
MaxSends == 2
\* most intents waiting in the channel in a run of the channel specification
MaxQueued == 2
\* longest buffer the channel specification is run on
MaxChannelLen == 1
\* most pages of one paging run
MaxPages == 6
\* longest mapped buffer that holds a byte that is not ASCII
MaxLossyLen == 2

\* ------------------------------------------------------------- constants
\* crossbeam_channel::bounded(100)
ChannelCapacity == 100
\* usize::MAX
MAX == 2^WordBits - 1
Modulus == MAX + 1
\* the newline byte b"\n"[0]
nl == 10
tab == 9
space == 32
\* the separator pushed between rows, "\n\r"
Separator == <<10, 13>>
\* the bytes a buffer is made of: newline, tab, the letter a, and 0xC3, a
\* UTF-8 lead byte that no continuation byte follows
Bytes == {nl, tab, 97}
LossyBytes == Bytes \cup {195}
\* U+FFFD, as from_utf8_lossy writes it
Replacement == <<239, 191, 189>>

Min(a, b) == IF a <= b THEN a ELSE b
Max(a, b) == IF a >= b THEN a ELSE b

\* the buffers: every sequence of Bytes of length 1..MaxLen and every
\* sequence of LossyBytes of length 1..MaxLossyLen (a mapping is never
\* empty: an empty file is mapped as one anonymous zero byte, which is modelled
\* by the one-byte buffers without a newline)
Buffers ==
    UNION {[1..n -> Bytes] : n \in 1..MaxLen}
        \cup UNION {[1..n -> LossyBytes] : n \in 1..MaxLossyLen}

\* the offsets of a direct call: the small ones and the top of the word, where
\* sums overflow
RowOffsets == (0..MaxRowOffset) \cup {MAX}
ColumnOffsets == (0..MaxColOffset) \cup {MAX}
RowCounts == 0..MaxRows
ColumnCounts == 0..MaxCols

VARIABLES
    mmap,            \* PagedReader.mmap, immutable
    rows_indexes,    \* PagedReader.rows_indexes
    overflow_checks, \* the build profile: TRUE = overflow panics
    panicked,        \* the thread has panicked
    call,            \* the arguments of the last read_file_paged call
    result           \* what that call returned

VARIABLES
    row_offset,      \* ScreenMoveHandler: first row of the viewport
    column_offset,   \* ScreenMoveHandler: first column of the viewport
    chan,            \* the bounded channel of run(), oldest intent first
    pc               \* where run() is: "init", "loop" or "done"

\* history variables: they record what the program did and are never read by it
VARIABLES
    origin,          \* for each intent of chan, <<its producer, its number>>
    nsent,           \* per producer, how many intents it has sent
    ntaken,          \* per producer, how many of its intents were dequeued
    shown,           \* the index entries the pages of a paging run returned
    pages            \* how many pages a paging run has requested

readerVars == <<mmap, rows_indexes, overflow_checks, panicked, call, result>>
pagerVars == <<row_offset, column_offset, chan, pc>>
historyVars == <<origin, nsent, ntaken, shown, pages>>
vars == <<readerVars, pagerVars, historyVars>>

\* mod.rs:69-70: the two threads that hold a clone of the sender
Producers == {"keyboard", "signal"}

NoCall == [op |-> "none"]
NoResult == [ok |-> FALSE]

\* ------------------------------------------------------- get_rows_indexes
\* reader.rs:82: row_offset as i64
AsSigned(x) == IF x >= Modulus \div 2 THEN x - Modulus ELSE x

\* reader.rs:80-83
to_row(rows, ro) ==
    IF ro + rows <= MAX
    THEN ro + rows
    ELSE Max(0, AsSigned(ro) - rows)

\* reader.rs:84-91
file_is_all_read(idx, m) ==
    IF idx = <<>> THEN FALSE ELSE idx[Len(idx)][2] >= Len(m) - 1

\* mutant: every scan started again from the first byte
last_found_Restart(idx) == 0

\* reader.rs:111-116
last_found(idx) == IF idx = <<>> THEN 0 ELSE idx[Len(idx)][2] + 1

\* reader.rs:118: to_row - self.rows_indexes.len(), which wraps below 0 in a
\* build without overflow checks
missing_indexes(idx, to) == (to - Len(idx)) % Modulus

\* reader.rs:124-127
limit(missing) ==
    IF missing * 2 > MAX THEN MAX ELSE missing * 2

\* mutant: the last byte looked for one past the end
AtLastByte_PastEnd(i, m) == i = Len(m)

\* reader.rs:143: the test that the scan is at the last byte
AtLastByte(i, m) == i = Len(m) - 1

\* mutant: the next row made to start on the newline itself
NextStart_OnNewline(found) == found

\* reader.rs:137: where the next row starts once a newline is found
NextStart(found) == found + 1

\* reader.rs:130-146: the scan loop from relative position i on
RECURSIVE Scan(_, _, _, _, _, _)
Scan(m, lf, lim, i, last, res) ==
    IF i >= Len(m) - lf THEN res
    ELSE IF m[lf + i + 1] = nl
         THEN LET found == i + lf
                  res2 == Append(res, <<last, found>>)
              IN IF Len(res2) >= lim THEN res2
                 ELSE Scan(m, lf, lim, i + 1, NextStart(found), res2)
         ELSE IF AtLastByte(i, m)
              THEN Scan(m, lf, lim, i + 1, last, Append(res, <<last, Len(m)>>))
              ELSE Scan(m, lf, lim, i + 1, last, res)

\* reader.rs:118 underflows in a build with overflow checks, or reader.rs:130
\* slices past the end
FetchPanics(idx, m, to, checks) ==
    (checks /\ to < Len(idx)) \/ last_found(idx) > Len(m)

\* mutant: the index replaced by the rows of this scan instead of extended
fetch_missing_rows_indexes_Replace(idx, m, to) ==
    Scan(m, last_found(idx), limit(missing_indexes(idx, to)), 0, last_found(idx), <<>>)

\* reader.rs:110-148: the index after the scan
fetch_missing_rows_indexes(idx, m, to) ==
    idx \o Scan(m, last_found(idx), limit(missing_indexes(idx, to)), 0, last_found(idx), <<>>)

\* reader.rs:130-141: the offsets of the bytes the scan loop reads, from
\* last_found up to the newline it breaks on or the last byte
ScannedOffsets(idx, m, to) ==
    LET res == Scan(m, last_found(idx), limit(missing_indexes(idx, to)), 0, last_found(idx), <<>>)
        stop == IF res # <<>> /\ Len(res) >= limit(missing_indexes(idx, to))
                THEN Min(res[Len(res)][2], Len(m) - 1)
                ELSE Len(m) - 1
    IN last_found(idx)..stop

\* reader.rs:93-96: whether the scan runs
NeedsFetch(idx, m, to) == ~file_is_all_read(idx, m) /\ ~(to <= Len(idx))

\* mutant: exactly row_offset entries skipped, as far as there are entries
skip_offset_Exact(idx, ro) == Min(Len(idx), ro)

\* reader.rs:98-101
skip_offset(idx, ro) ==
    IF Min(Len(idx), ro) >= 1 THEN Min(Len(idx), ro) - 1 ELSE 0

\* reader.rs:102-108: skip(skip).take(rows)
SkipTake(idx, skip, rows) ==
    SubSeq(idx, skip + 1, Min(Len(idx), skip + rows))

\* reader.rs:73-109: [panic, index after the call, the entries returned]
get_rows_indexes(idx, m, checks, rows, ro) ==
    LET to == to_row(rows, ro)
        fetch == NeedsFetch(idx, m, to)
        bad == fetch /\ FetchPanics(idx, m, to, checks)
        idx2 == IF fetch /\ ~bad THEN fetch_missing_rows_indexes(idx, m, to) ELSE idx
    IN [panic |-> bad,
        index |-> idx2,
        indexes |-> IF bad THEN <<>> ELSE SkipTake(idx2, skip_offset(idx2, ro), rows)]

\* ------------------------------------------------------- read_file_paged
\* reader.rs:53, String::from_utf8_lossy: the width of the sequence a byte
\* leads, 0 for a byte that leads none
utf8_char_width(b) ==
    IF b < 128 THEN 1
    ELSE IF b >= 194 /\ b <= 223 THEN 2
    ELSE IF b >= 224 /\ b <= 239 THEN 3
    ELSE IF b >= 240 /\ b <= 244 THEN 4
    ELSE 0

\* the byte at offset i, 0 past the end
safe_get(row, i) == IF i < Len(row) THEN row[i + 1] ELSE 0

IsContinuation(b) == b >= 128 /\ b <= 191

\* the second byte of a sequence of three or four bytes is in the range its
\* lead byte allows
SecondFits(first, second) ==
    \/ first = 224 /\ second >= 160 /\ second <= 191
    \/ first >= 225 /\ first <= 236 /\ IsContinuation(second)
    \/ first = 237 /\ second >= 128 /\ second <= 159
    \/ first >= 238 /\ first <= 239 /\ IsContinuation(second)
    \/ first = 240 /\ second >= 144 /\ second <= 191
    \/ first >= 241 /\ first <= 243 /\ IsContinuation(second)
    \/ first = 244 /\ second >= 128 /\ second <= 143

\* the chunk that starts at offset i: a whole sequence, or the longest
\* prefix of one that the next byte breaks
ChunkAt(row, i) ==
    LET b == row[i + 1]
        w == utf8_char_width(b)
    IN IF w = 1 THEN [valid |-> TRUE, len |-> 1]
       ELSE IF w = 0 THEN [valid |-> FALSE, len |-> 1]
       ELSE IF w = 2
            THEN IF IsContinuation(safe_get(row, i + 1))
                 THEN [valid |-> TRUE, len |-> 2]
                 ELSE [valid |-> FALSE, len |-> 1]
       ELSE IF ~SecondFits(b, safe_get(row, i + 1)) THEN [valid |-> FALSE, len |-> 1]
       ELSE IF ~IsContinuation(safe_get(row, i + 2)) THEN [valid |-> FALSE, len |-> 2]
       ELSE IF w = 3 THEN [valid |-> TRUE, len |-> 3]
       ELSE IF ~IsContinuation(safe_get(row, i + 3)) THEN [valid |-> FALSE, len |-> 3]
       ELSE [valid |-> TRUE, len |-> 4]

\* the bytes of the string from_utf8_lossy makes of the row from offset i on:
\* valid sequences are kept, every invalid chunk becomes one U+FFFD
RECURSIVE from_utf8_lossy(_, _, _)
from_utf8_lossy(row, i, res) ==
    IF i >= Len(row) THEN res
    ELSE LET chunk == ChunkAt(row, i)
         IN from_utf8_lossy(row, i + chunk.len,
                            res \o (IF chunk.valid
                                    THEN SubSeq(row, i + 1, i + chunk.len)
                                    ELSE Replacement))

\* replace("\t", " ")
replace_tab(text) == [k \in 1..Len(text) |-> IF text[k] = tab THEN space ELSE text[k]]

\* reader.rs:53: from_utf8_lossy followed by replace("\t", " ")
Decode(row) == replace_tab(from_utf8_lossy(row, 0, <<>>))

\* mutant: the window not cut to columns_to_read
Window_NoColumns(entry, co, columns_to_read) ==
    [overflow |-> entry[1] + co > MAX,
     start |-> Min((entry[1] + co) % Modulus, entry[2]),
     end |-> entry[2]]

\* reader.rs:40-46 for one entry: the window [start, end) and whether an
\* addition overflowed
Window(entry, co, columns_to_read) ==
    LET s1 == entry[1] + co
        s2 == (s1 % Modulus) + columns_to_read
        end == Min(entry[2], s2 % Modulus)
        start == Min(s1 % Modulus, end)
    IN [overflow |-> s1 > MAX \/ s2 > MAX, start |-> start, end |-> end]

\* reader.rs:48: the slice &self.mmap[start..end]
Slice(m, start, end) == SubSeq(m, start + 1, end)
SlicePanics(m, start, end) == start > end \/ end > Len(m)

\* reader.rs:55: has_text after the row as_string
has_text_step(has_text, as_string) == has_text \/ as_string # <<>>

\* reader.rs:39-61: the loop over the entries, from entry i on
RECURSIVE Rows(_, _, _, _, _, _, _, _)
Rows(m, indexes, co, c, checks, i, res, has_text) ==
    IF i > Len(indexes) THEN [panic |-> FALSE, text |-> res, has_text |-> has_text]
    ELSE LET w == Window(indexes[i], co, c)
         IN IF (checks /\ w.overflow) \/ SlicePanics(m, w.start, w.end)
            THEN [panic |-> TRUE, text |-> <<>>, has_text |-> FALSE]
            ELSE LET as_string == Decode(Slice(m, w.start, w.end))
                     res2 == res \o as_string
                     res3 == IF i - 1 < Len(indexes) - 1 THEN res2 \o Separator ELSE res2
                 IN Rows(m, indexes, co, c, checks, i + 1, res3,
                         has_text_step(has_text, as_string))

\* mutant: the requested columns reported whether or not there was text
cols_red_Always(has_text, columns_to_read) == columns_to_read

\* reader.rs:63-67
cols_red(has_text, columns_to_read) == IF has_text THEN columns_to_read ELSE 0

\* reader.rs:62-69: what the call returns, from the entries selected (g) and
\* the rows rendered (r); a panic returns nothing
PageOf(g, r, columns_to_read) ==
    IF g.panic \/ r.panic THEN NoResult
    ELSE [ok |-> TRUE,
          text |-> r.text,
          rows |-> Len(g.indexes),
          cols |-> cols_red(r.has_text, columns_to_read),
          indexes |-> g.indexes]

\* reader.rs:36-69: the part of read_file_paged after get_rows_indexes returned g
RenderPage(g, m, checks, co, columns_to_read) ==
    [index |-> g.index,
     result |-> PageOf(g, Rows(m, g.indexes, co, columns_to_read,
                               checks, 1, <<>>, FALSE), columns_to_read)]

\* reader.rs:28-70: [index after the call, result]
read_file_paged(idx, m, checks, ro, co, rows_to_read, columns_to_read) ==
    RenderPage(get_rows_indexes(idx, m, checks, rows_to_read, ro), m, checks,
               co, columns_to_read)

\* ------------------------------------------------------ ScreenMoveHandler
\* The handler's source file is not among the sources; its methods follow
\* the transition table of the design (section 4.3).  Each yields the offsets
\* it asks the reader for and the offsets it keeps once the page is known.
Message == {"ScrollUpPage", "ScrollLeftPage", "ScrollRightPage",
            "ScrollDownPage", "Reload", "Exit"}

\* the offsets the page is requested at
move_up(ro, co, rows, cols) == <<Max(0, ro - rows), co>>
move_down(ro, co, rows, cols) == <<ro + rows, co>>
move_left(ro, co, rows, cols) == <<ro, Max(0, co - cols)>>
move_right(ro, co, rows, cols) == <<ro, co + cols>>
reload(ro, co, rows, cols) == <<ro, co>>
initial_screen(rows, cols) == <<0, 0>>

\* move_right keeps the new column only if the page served columns
Commits(message, page) ==
    IF message = "ScrollRightPage" THEN page.ok /\ page.cols # 0 ELSE TRUE

\* ------------------------------------------------------------------ run()
\* mutant: the arms of ScrollUpPage and ScrollDownPage swapped, Reload moving
Requested_Swapped(message, ro, co, rows, cols) ==
    CASE message = "ScrollUpPage" -> move_down(ro, co, rows, cols)
      [] message = "ScrollLeftPage" -> move_left(ro, co, rows, cols)
      [] message = "ScrollRightPage" -> move_right(ro, co, rows, cols)
      [] message = "ScrollDownPage" -> move_up(ro, co, rows, cols)
      [] message = "Reload" -> move_down(ro, co, rows, cols)

\* mod.rs:78-85: the match of the dispatch loop
Requested(message, ro, co, rows, cols) ==
    CASE message = "ScrollUpPage" -> move_up(ro, co, rows, cols)
      [] message = "ScrollLeftPage" -> move_left(ro, co, rows, cols)
      [] message = "ScrollRightPage" -> move_right(ro, co, rows, cols)
      [] message = "ScrollDownPage" -> move_down(ro, co, rows, cols)
      [] message = "Reload" -> reload(ro, co, rows, cols)

\* mod.rs:142-150: the key pressed to the intent sent
Keys == {"q", "ctrl_c", "left", "right", "up", "other"}
KeyMessage(key) ==
    CASE key = "q" -> "Exit"
      [] key = "ctrl_c" -> "Exit"
      [] key = "left" -> "ScrollLeftPage"
      [] key = "right" -> "ScrollRightPage"
      [] key = "up" -> "ScrollUpPage"
      [] OTHER -> "ScrollDownPage"

\* mod.rs:97-100: the signal to the intent sent
Signals == {"SIGWINCH", "SIGINT"}
SignalMessage(sig) == IF sig = "SIGWINCH" THEN "Reload" ELSE "Exit"

\* mod.rs:71, 77: terminal_size()
TermRows == 1..MaxRows
TermCols == 1..MaxCols

\* ---------------------------------------------------------------- actions
Init ==
    /\ mmap \in Buffers
    /\ rows_indexes = <<>>
    /\ overflow_checks \in BOOLEAN
    /\ panicked = FALSE
    /\ call = NoCall
    /\ result = NoResult
    /\ row_offset = 0
    /\ column_offset = 0
    /\ chan = <<>>
    /\ pc = "init"
    /\ origin = <<>>
    /\ nsent = [p \in Producers |-> 0]
    /\ ntaken = [p \in Producers |-> 0]
    /\ shown = {}
    /\ pages = 0

\* the reader performs one read_file_paged call
\* (call also keeps the index the call found and the viewport it was made from)
DoRead(op, ro, co, r, c, out) ==
    /\ rows_indexes' = out.index
    /\ panicked' = ~out.result.ok
    /\ result' = out.result
    /\ call' = [op |-> op, row_offset |-> ro, column_offset |-> co,
                rows |-> r, cols |-> c, known |-> rows_indexes,
                from |-> <<row_offset, column_offset>>]

\* a call of read_file_paged on the reader, as the tests make it
\* (reader.rs:169-171)
ReadFilePaged(ro, co, r, c) ==
    /\ ~panicked
    /\ call = NoCall
    /\ \E out \in {read_file_paged(rows_indexes, mmap, overflow_checks, ro, co, r, c)} :
          DoRead("read", ro, co, r, c, out)
    /\ UNCHANGED <<mmap, overflow_checks, pagerVars, historyVars>>

\* the caller is done with the page it got (reader.rs:172-175) and the
\* reader is ready for its next call
Drop ==
    /\ ~panicked
    /\ call # NoCall
    /\ call' = NoCall
    /\ result' = NoResult
    /\ UNCHANGED <<mmap, rows_indexes, overflow_checks, panicked, pagerVars, historyVars>>

\* mod.rs:71-74: the first page, at (0, 0)
InitialScreen(rows, cols) ==
    /\ pc = "init"
    /\ ~panicked
    /\ LET at == initial_screen(rows, cols)
       IN \E out \in {read_file_paged(rows_indexes, mmap, overflow_checks,
                                      at[1], at[2], rows, cols)} :
             /\ DoRead("Initial", at[1], at[2], rows, cols, out)
             /\ pc' = IF out.result.ok THEN "loop" ELSE "done"
    /\ UNCHANGED <<mmap, overflow_checks, row_offset, column_offset, chan, historyVars>>

\* mutant: the intent put at the head of the channel
send_Front(queue, message) == <<message>> \o queue

\* mod.rs:101, 151: sender.send(message) puts the intent behind those waiting
send(queue, message) == Append(queue, message)

\* mod.rs:126-154: the keyboard thread sends the intent of one key; a send
\* blocks while the channel is full
KeyPressed(key) ==
    /\ pc # "done"
    /\ Len(chan) < ChannelCapacity
    /\ Len(chan) < MaxPending
    /\ chan' = send(chan, KeyMessage(key))
    /\ UNCHANGED <<readerVars, row_offset, column_offset, pc, historyVars>>

\* mod.rs:92-105: the signal thread sends the intent of one signal
SignalReceived(sig) ==
    /\ pc # "done"
    /\ Len(chan) < ChannelCapacity
    /\ Len(chan) < MaxPending
    /\ chan' = send(chan, SignalMessage(sig))
    /\ UNCHANGED <<readerVars, row_offset, column_offset, pc, historyVars>>

\* mutant: the loop taking its next intent after Exit
ExitArm_Continue == pc' = "loop"

\* mod.rs:84: Message::Exit => break 'main_loop
ExitArm == pc' = "done"

\* mod.rs:76-87, the intent is Exit: the loop is left
DispatchExit ==
    /\ pc = "loop"
    /\ chan # <<>>
    /\ Head(chan) = "Exit"
    /\ chan' = Tail(chan)
    /\ ExitArm
    /\ UNCHANGED <<readerVars, row_offset, column_offset, historyVars>>

\* mod.rs:77-86: one intent that is not Exit is handled in a terminal of
\* rows x cols
Apply(message, rows, cols) ==
    LET at == Requested(message, row_offset, column_offset, rows, cols)
    IN \E out \in {read_file_paged(rows_indexes, mmap, overflow_checks,
                                   at[1], at[2], rows, cols)} :
          /\ DoRead(message, at[1], at[2], rows, cols, out)
          /\ row_offset' = IF Commits(message, out.result) THEN at[1] ELSE row_offset
          /\ column_offset' = IF Commits(message, out.result) THEN at[2]
                              ELSE column_offset
          /\ pc' = IF out.result.ok THEN "loop" ELSE "done"

\* mod.rs:76-87, any other intent: the handler moves and the page is read
\* (the row offset of the model stops at MaxRowOffset + 1)
Dispatch(rows, cols) ==
    /\ pc = "loop"
    /\ chan # <<>>
    /\ Head(chan) # "Exit"
    /\ Requested(Head(chan), row_offset, column_offset, rows, cols)[1] <= MaxRowOffset + 1
    /\ Apply(Head(chan), rows, cols)
    /\ chan' = Tail(chan)
    /\ UNCHANGED <<mmap, overflow_checks, historyVars>>

\* the reader driven directly, as by its tests
Next ==
    \/ \E ro \in RowOffsets, co \in ColumnOffsets, r \in RowCounts, c \in ColumnCounts :
          ReadFilePaged(ro, co, r, c)
    \/ Drop

Spec == Init /\ [][Next]_vars

\* the pager: run() with its two producer threads
NextPager ==
    \/ \E rows \in TermRows, cols \in TermCols : InitialScreen(rows, cols)
    \/ \E key \in Keys : KeyPressed(key)
    \/ \E sig \in Signals : SignalReceived(sig)
    \/ DispatchExit
    \/ \E rows \in TermRows, cols \in TermCols : Dispatch(rows, cols)

\* run() on a buffer of at most MaxPagerLen bytes
InitPager == Init /\ Len(mmap) <= MaxPagerLen

SpecPager == InitPager /\ [][NextPager]_vars

\* ------------------------------------------ the channel, intent by intent
\* The runs of run() in which every intent carries the producer that sent it
\* and its number in that producer's sending order.  Each producer sends at
\* most MaxSends intents and the channel holds at most MaxQueued of them.

\* the channel has room: send returns at once, otherwise it blocks
HasRoom(queue) == Len(queue) < ChannelCapacity /\ Len(queue) < MaxQueued

\* producer p sends message
Sends(p, message) ==
    /\ pc # "done"
    /\ nsent[p] < MaxSends
    /\ HasRoom(chan)
    /\ chan' = send(chan, message)
    /\ origin' = send(origin, <<p, nsent[p] + 1>>)
    /\ nsent' = [nsent EXCEPT ![p] = @ + 1]
    /\ UNCHANGED <<readerVars, row_offset, column_offset, pc, ntaken, shown, pages>>

\* mutant: an intent sent to a full channel is thrown away
KeyboardSends_Dropping(key) ==
    \/ Sends("keyboard", KeyMessage(key))
    \/ /\ pc # "done"
       /\ nsent["keyboard"] < MaxSends
       /\ ~HasRoom(chan)
       /\ nsent' = [nsent EXCEPT !["keyboard"] = @ + 1]
       /\ UNCHANGED <<readerVars, pagerVars, origin, ntaken, shown, pages>>

\* mod.rs:126-154
KeyboardSends(key) == Sends("keyboard", KeyMessage(key))

\* mod.rs:92-105
SignalSends(sig) == Sends("signal", SignalMessage(sig))

\* mod.rs:76: the loop takes the oldest intent out of the channel
Takes ==
    /\ pc = "loop"
    /\ chan # <<>>
    /\ chan' = Tail(chan)
    /\ origin' = Tail(origin)
    /\ ntaken' = [ntaken EXCEPT ![Head(origin)[1]] = @ + 1]
    /\ UNCHANGED <<mmap, overflow_checks, nsent, shown, pages>>

\* mod.rs:84
TakesExit ==
    /\ Takes
    /\ Head(chan) = "Exit"
    /\ ExitArm
    /\ UNCHANGED <<rows_indexes, panicked, call, result, row_offset, column_offset>>

\* mod.rs:77-86
TakesIntent(rows, cols) ==
    /\ Takes
    /\ Head(chan) # "Exit"
    /\ Apply(Head(chan), rows, cols)

NextChannel ==
    \/ \E key \in Keys : KeyboardSends(key)
    \/ \E sig \in Signals : SignalSends(sig)
    \/ \E rows \in TermRows, cols \in TermCols : InitialScreen(rows, cols)
    \/ TakesExit
    \/ \E rows \in TermRows, cols \in TermCols : TakesIntent(rows, cols)

InitChannel == Init /\ Len(mmap) <= MaxChannelLen

SpecChannel == InitChannel /\ [][NextChannel]_vars

\* a step of the main thread of run(), by what it does to pc and chan: the
\* first screen (mod.rs:71-74) or one turn of the loop (mod.rs:76-87)
MainThreadStep ==
    \/ pc = "init" /\ ~panicked /\ pc' \in {"loop", "done"} /\ chan' = chan
    \/ pc = "loop" /\ chan # <<>> /\ chan' = Tail(chan) /\ pc' \in {"loop", "done"}

\* the main thread is never starved: it blocks only on an empty channel
\* (mod.rs:76) and runs whenever it has an intent to take
SpecChannelFair == SpecChannel /\ WF_<<pc, chan>>(MainThreadStep)

\* ------------------------------------------------------------ paging down
\* The pages a reader is asked for when the viewport goes down page by page
\* in a terminal of rows x cols: row offsets 0, rows, 2 * rows, ...
PageDown(rows, cols) ==
    /\ ~panicked
    /\ pages < MaxPages
    /\ pages > 0 => (rows = call.rows /\ cols = call.cols)
    /\ \E out \in {read_file_paged(rows_indexes, mmap, overflow_checks,
                                   pages * rows, 0, rows, cols)} :
          /\ DoRead("PageDown", pages * rows, 0, rows, cols, out)
          /\ shown' = IF out.result.ok
                      THEN shown \cup {out.result.indexes[k] : k \in 1..Len(out.result.indexes)}
                      ELSE shown
    /\ pages' = pages + 1
    /\ UNCHANGED <<mmap, overflow_checks, pagerVars, origin, nsent, ntaken>>

NextPaging == \E rows \in TermRows, cols \in TermCols : PageDown(rows, cols)

SpecPaging == Init /\ [][NextPaging]_vars

\* ------------------------------------------------- reference definitions
\* The lines of a buffer, by position: every newline ends a line, and the
\* bytes after the last newline, when there are any, form the last line,
\* which ends at the length of the buffer.
NewlineOffsets(m) == {k \in 0..(Len(m) - 1) : m[k + 1] = nl}
LineEnds(m) == NewlineOffsets(m) \cup (IF m[Len(m)] # nl THEN {Len(m)} ELSE {})
NumLines(m) == Cardinality(LineEnds(m))
LineEnd(m, n) == CHOOSE e \in LineEnds(m) : Cardinality({x \in LineEnds(m) : x < e}) = n
LineStart(m, n) == IF n = 0 THEN 0 ELSE LineEnd(m, n - 1) + 1
RefIndex(m) == [n \in 1..NumLines(m) |-> <<LineStart(m, n - 1), LineEnd(m, n - 1)>>]
\* the bytes of line n (0-based), without its newline
LineBytes(m, n) == SubSeq(m, LineStart(m, n) + 1, LineEnd(m, n))
Truncate(row, c) == SubSeq(row, 1, Min(Len(row), c))
RECURSIVE JoinRows(_)
JoinRows(rows) ==
    IF rows = <<>> THEN <<>>
    ELSE IF Len(rows) = 1 THEN rows[1]
    ELSE rows[1] \o Separator \o JoinRows(Tail(rows))
IsPrefix(s, t) == Len(s) <= Len(t) /\ SubSeq(t, 1, Len(s)) = s

Called == call.op # "none"
Returned == Called /\ result.ok
\* the last call was made on a reader that knew no row yet
OnFresh == Called /\ call.known = <<>>
\* the target row count of the last call, when the sum fits the word
Target == call.row_offset + call.rows
FullyScanned == file_is_all_read(rows_indexes, mmap)

\* ----------------------------------------------------------------- claims
\* C1: read_file_paged never panics, whatever the buffer, the offsets and the
\* counts and whatever calls came before, and serves at most rows_to_read rows.
C1_NeverPanics ==
    /\ ~panicked
    /\ Returned => result.rows <= call.rows

\* C2: the entries a page returns are exactly the index entries numbered
\* [row_offset, row_offset + rows_to_read), clamped to the entries that exist,
\* so the first row returned is line row_offset.
C2_PageStartsAtRowOffset ==
    Returned =>
        result.indexes = SubSeq(rows_indexes, call.row_offset + 1,
                                Min(Len(rows_indexes), call.row_offset + call.rows))

\* C3: after a discovery call with target T = row_offset + rows_to_read (a sum
\* that fits the word), the index holds at least T entries or the file is
\* fully scanned.
C3_DiscoveryReachesTarget ==
    (Called /\ Target <= MAX) => (Len(rows_indexes) >= Target \/ FullyScanned)

\* C4: on a fresh reader the page at (0, 0) is the first min(R, number of
\* lines) lines, each cut to its first C bytes and decoded, joined by "\n\r"
\* with none after the last row; rows_served is the number of rows and
\* columns_served is C when some returned row is not empty.
C4_FirstPage ==
    (OnFresh /\ call.row_offset = 0 /\ call.column_offset = 0) =>
        LET n == Min(call.rows, NumLines(mmap))
            rows == [k \in 1..n |-> Decode(Truncate(LineBytes(mmap, k - 1), call.cols))]
        IN /\ result.ok
           /\ result.text = JoinRows(rows)
           /\ result.rows = n
           /\ (\E k \in 1..n : rows[k] # <<>>) => result.cols = call.cols

\* C4 witness: two rows of a three-byte buffer, cut to one column ("a\n\ra")
C4_Witness ==
    /\ OnFresh /\ call.row_offset = 0 /\ call.column_offset = 0
    /\ mmap = <<97, nl, 97>>
    /\ call.rows = 2 /\ call.cols = 1
    /\ result.ok /\ result.rows = 2 /\ result.cols = 1
    /\ result.text = <<97, 10, 13, 97>>

\* C5: one discovery call on a fresh reader whose target is at least the
\* number of lines yields exactly the reference decomposition of the buffer.
C5_FullDiscovery ==
    (OnFresh /\ Target <= MAX /\ Target >= NumLines(mmap)) =>
        rows_indexes = RefIndex(mmap)

\* C5 witness: "\naaa" discovered as [(0,0),(1,4)] by one call
C5_Witness ==
    /\ OnFresh /\ Target <= MAX /\ Target >= NumLines(mmap)
    /\ mmap = <<nl, 97, 97, 97>>
    /\ rows_indexes = <<<<0, 0>>, <<1, 4>>>>

\* C6: the index is append-only: every step keeps the entries it had, at the
\* same positions and with the same offsets.
C6_AppendOnly == [][IsPrefix(rows_indexes, rows_indexes')]_vars

\* C6 witness: a call that found the index non-empty and appended to it
C6_Witness ==
    /\ Called
    /\ call.known # <<>>
    /\ Len(rows_indexes) > Len(call.known)

\* C7: the index starts at offset 0, every entry has start <= end, consecutive
\* entries are contiguous, every entry but the last ends at a newline with no
\* newline before it in the entry, and entry i is line i of the buffer.
C7_IndexWellFormed ==
    LET idx == rows_indexes IN
    /\ idx # <<>> => idx[1][1] = 0
    /\ \A i \in 1..Len(idx) : idx[i][1] <= idx[i][2]
    /\ \A i \in 1..(Len(idx) - 1) :
          /\ idx[i][2] + 1 = idx[i + 1][1]
          /\ mmap[idx[i][2] + 1] = nl
          /\ \A k \in idx[i][1]..(idx[i][2] - 1) : mmap[k + 1] # nl
    /\ Len(idx) <= NumLines(mmap)
    /\ \A i \in 1..Len(idx) : idx[i] = RefIndex(mmap)[i]

\* C7 witness: an index of three entries built by two scans
C7_Witness ==
    /\ Len(rows_indexes) = 3
    /\ Called /\ call.known # <<>> /\ Len(call.known) < 3

\* C8: columns_served is 0 exactly when no returned row has a byte in its
\* column window [start + column_offset, min(end, start + column_offset +
\* columns_to_read)), and is columns_to_read otherwise.
HasVisibleByte(entry, co, c) == c > 0 /\ entry[1] + co < entry[2]
C8_ColumnsServed ==
    Returned =>
        result.cols =
            IF \E i \in 1..Len(result.indexes) :
                   HasVisibleByte(result.indexes[i], call.column_offset, call.cols)
            THEN call.cols ELSE 0

\* a step of the dispatch loop that takes the intent message off the channel
DispatchStep(message) ==
    /\ pc = "loop"
    /\ chan # <<>>
    /\ Head(chan) = message
    /\ chan' = Tail(chan)

\* C9: ScrollRight asks for the page at column_offset + columns_to_read of the
\* same row; when that page reports columns_served = 0 both offsets stay, when
\* it reports columns it advances by columns_to_read, and so it never moves to
\* a column where no row of the page has a byte.
C9_ScrollRightSaturates ==
    [][DispatchStep("ScrollRightPage") =>
          /\ call'.row_offset = row_offset
          /\ call'.column_offset = column_offset + call'.cols
          /\ row_offset' = row_offset
          /\ (result'.ok /\ result'.cols = 0) => column_offset' = column_offset
          /\ (result'.ok /\ result'.cols # 0) =>
                 column_offset' = column_offset + call'.cols
          /\ column_offset' # column_offset =>
                 \E i \in 1..Len(result'.indexes) :
                     HasVisibleByte(result'.indexes[i], column_offset', call'.cols)]_vars

\* C9 witness: a ScrollRight that found nothing to show after the viewport had
\* already moved right, and left it where it was
C9_Witness ==
    /\ call.op = "ScrollRightPage"
    /\ result.ok /\ result.cols = 0
    /\ call.from[2] > 0
    /\ column_offset = call.from[2]
    /\ call.column_offset = call.from[2] + call.cols

\* C10: from (0, 0), ScrollDown never decreases row_offset, ScrollUp sets it
\* to max(0, row_offset - rows_to_read) and never below 0, and Reload leaves
\* both offsets as they are.
C10_ScrollMonotone ==
    [][/\ DispatchStep("ScrollDownPage") => row_offset' >= row_offset
       /\ DispatchStep("ScrollUpPage") =>
              /\ row_offset' = Max(0, row_offset - call'.rows)
              /\ row_offset' >= 0
              /\ column_offset' = column_offset
       /\ DispatchStep("Reload") =>
              /\ row_offset' = row_offset
              /\ column_offset' = column_offset]_vars

\* C10 witness: a ScrollUp of two rows from row 1, which stops at row 0
C10_Witness ==
    /\ call.op = "ScrollUpPage"
    /\ call.from[1] = 1 /\ call.rows = 2
    /\ row_offset = 0
    /\ result.ok

\* C11: Exit is terminal: the step that dequeues Exit leaves the loop and
\* reads no page and moves no offset, and once the loop is left no intent,
\* waiting behind Exit or otherwise, is dequeued, applied to the scroll state
\* or answered with a page.
C11_ExitIsTerminal ==
    [][/\ DispatchStep("Exit") =>
              /\ pc' = "done"
              /\ UNCHANGED <<rows_indexes, call, result, row_offset, column_offset>>
       /\ pc = "done" =>
              UNCHANGED <<rows_indexes, call, result, row_offset, column_offset,
                          chan, ntaken, pc>>]_vars

\* C11 witness: the loop was left on Exit while an intent was waiting behind it
C11_Witness ==
    /\ pc = "done"
    /\ ~panicked
    /\ chan # <<>>
    /\ \E p \in Producers : ntaken[p] < nsent[p]

\* C12: the loop applies one intent per step, and the intent it takes from a
\* producer is always the next one in that producer's sending order; which
\* producer the next intent comes from is not constrained.
C12_PerProducerFifo ==
    [][ntaken' # ntaken =>
          /\ pc = "loop"
          /\ chan # <<>>
          /\ chan' = Tail(chan)
          /\ Head(chan) # "Exit" => call'.op = Head(chan)
          /\ \E p \in Producers :
                /\ Head(origin) = <<p, ntaken[p] + 1>>
                /\ ntaken' = [ntaken EXCEPT ![p] = @ + 1]]_vars

\* C12 witness: the intents of both producers have been applied, a signal
\* intent between two keyboard intents
C12_Witness ==
    /\ pc = "loop"
    /\ ntaken["keyboard"] = 2
    /\ ntaken["signal"] = 1
    /\ call.op = "ScrollUpPage"
    /\ nsent["signal"] = 1

\* the intents of producer p waiting in the channel, oldest first
Waiting(p) == SelectSeq(origin, LAMBDA t : t[1] = p)

\* every intent sent is either dequeued or waiting, once, in sending order
Conserved ==
    /\ Len(origin) = Len(chan)
    /\ \A p \in Producers :
          /\ Len(Waiting(p)) = nsent[p] - ntaken[p]
          /\ \A k \in 1..Len(Waiting(p)) : Waiting(p)[k][2] = ntaken[p] + k

\* C13 as stated: the channel never holds more than its capacity and, when
\* the loop has handled Exit, every intent sent before that was dequeued.
C13_EveryIntentApplied ==
    /\ Len(chan) <= ChannelCapacity
    /\ (pc = "done" /\ ~panicked) => \A p \in Producers : ntaken[p] = nsent[p]

\* C13 amended: the channel never holds more than its capacity, a full channel
\* holds its producers back without dropping, no intent is lost from the
\* channel or duplicated in it, and the intents are dequeued until the loop
\* is left or none is waiting: only the intents behind an Exit stay unapplied.
C13_NoLossAheadOfExit ==
    /\ [](Len(chan) <= ChannelCapacity /\ Conserved)
    /\ <>[](pc = "done" \/ chan = <<>>)

\* C13 witness: the channel is full while a producer that still has an intent
\* to send is held back, after intents of it were already applied
C13_Witness ==
    /\ pc = "loop"
    /\ ~HasRoom(chan)
    /\ \E p \in Producers : nsent[p] < MaxSends /\ ntaken[p] >= 1

\* the discovery target of the last call
CallTarget == to_row(call.rows, call.row_offset)
\* the last call ran a discovery scan
CallScanned ==
    /\ Called
    /\ NeedsFetch(call.known, mmap, CallTarget)
    /\ ~FetchPanics(call.known, mmap, CallTarget, overflow_checks)
\* that scan was not stopped by its limit before the end of the buffer
ScanReachedEnd ==
    Cardinality({k \in NewlineOffsets(mmap) : k >= last_found(call.known)})
        < limit(missing_indexes(call.known, CallTarget))

\* C14: when a discovery scan, resumed or not, reaches the final byte and that
\* byte is not a newline, the index ends with the entry of the last line,
\* (its start, the length of the buffer), and the buffer is fully scanned.
C14_TrailingLineAppended ==
    (CallScanned /\ ScanReachedEnd /\ mmap[Len(mmap)] # nl) =>
        /\ rows_indexes # <<>>
        /\ rows_indexes[Len(rows_indexes)] = RefIndex(mmap)[NumLines(mmap)]
        /\ FullyScanned

\* the bytes of the columns [co, co + c) of the line entry, as the claim
\* gives them: the slice [min(start + co, e), e), e = min(end, start + co + c)
ColumnWindow(m, entry, co, c) ==
    LET e == Min(entry[2], entry[1] + co + c)
    IN SubSeq(m, Min(entry[1] + co, e) + 1, e)

\* C15: every call returns, and the row it returns for a selected entry is
\* exactly the window of columns_to_read columns at column_offset cut to the
\* line: at most columns_to_read bytes, none outside the line, and the empty
\* row, not an error, for a line shorter than column_offset.
C15_RowsAreColumnWindows ==
    Called =>
        /\ result.ok
        /\ result.text =
               JoinRows([i \in 1..Len(result.indexes) |->
                           Decode(ColumnWindow(mmap, result.indexes[i],
                                               call.column_offset, call.cols))])

\* the offsets of the bytes the last call scanned
CallScannedOffsets ==
    IF CallScanned THEN ScannedOffsets(call.known, mmap, CallTarget) ELSE {}
\* the end of the last entry known before the last call
KnownEnd == call.known[Len(call.known)][2]

\* C16: a discovery scan starts at the byte right after the end of the last
\* entry known (at offset 0 when none is known) and reads no byte at or before
\* that end; a call on a fully scanned buffer scans no byte and leaves the
\* index as it was.
C16_ScanResumesAfterKnown ==
    Called =>
        /\ CallScanned =>
              /\ \A k \in CallScannedOffsets : k >= 0 /\ k < Len(mmap)
              /\ call.known = <<>> => 0 \in CallScannedOffsets
              /\ call.known # <<>> =>
                    /\ KnownEnd + 1 \in CallScannedOffsets
                    /\ \A k \in CallScannedOffsets : k > KnownEnd
                    /\ \A i \in 1..Len(rows_indexes) :
                          i > Len(call.known) => rows_indexes[i][1] > KnownEnd
        /\ file_is_all_read(call.known, mmap) =>
              /\ CallScannedOffsets = {}
              /\ rows_indexes = call.known

\* C16 witness: a scan resumed behind the two lines known found a third
C16_Witness ==
    /\ CallScanned
    /\ Len(call.known) = 2
    /\ Len(rows_indexes) = 3

\* the row sum of the last call does not fit the word
RowSumOverflows == Called /\ call.row_offset + call.rows > MAX

\* C17: when row_offset + rows_to_read exceeds the largest word, the discovery
\* target is a value within the word that is not the wrapped sum taken as a
\* target (the target is 0 and nothing is discovered), and the call returns a
\* page without panicking.
C17_RowOverflowClamped ==
    RowSumOverflows =>
        /\ CallTarget \in 0..MAX
        /\ CallTarget = 0
        /\ rows_indexes = call.known
        /\ result.ok

\* line n (1-based) of the buffer has appeared in a page of the paging run
Shown(n) == RefIndex(mmap)[n] \in shown
\* no line was jumped over: every line before a line shown was shown
NoLineSkipped ==
    \A n \in 1..NumLines(mmap) :
        (\E later \in (n + 1)..NumLines(mmap) : Shown(later)) => Shown(n)
\* the last page requested starts at or after the number of lines
PagedPastTheEnd == pages >= 1 /\ (pages - 1) * call.rows >= NumLines(mmap)

\* C18: paging down from row 0 by the page height skips no line between
\* pages, and once the pages requested have passed the number of lines every
\* line of the buffer, its last line without a newline included, has appeared.
C18_PagingShowsWholeSource ==
    (pages >= 1 /\ ~panicked) =>
        /\ NoLineSkipped
        /\ PagedPastTheEnd => \A n \in 1..NumLines(mmap) : Shown(n)

\* C19: on a buffer of at least one byte, a call for at least one row whose
\* row sum fits the word returns at least one row, whatever calls came before;
\* when row_offset is at or beyond the number of lines the page is the last
\* line known.
C19_PageNeverEmpty ==
    (Returned /\ call.rows >= 1 /\ call.row_offset + call.rows <= MAX) =>
        /\ result.rows >= 1
        /\ result.indexes # <<>>
        /\ call.row_offset >= NumLines(mmap) =>
               result.indexes = <<rows_indexes[Len(rows_indexes)]>>

\* C19 witness: a reader that knew rows already is asked for two rows from
\* beyond the last line and returns the one last line it knows
C19_Witness ==
    /\ Returned
    /\ call.known # <<>>
    /\ call.rows = 2
    /\ call.row_offset > NumLines(mmap)
    /\ call.row_offset + call.rows <= MAX
    /\ result.rows = 1
    /\ result.indexes = <<rows_indexes[Len(rows_indexes)]>>

====
